---- MODULE Spec2Model ----
(***************************************************************************)
(* Model of finetuning/config.py: the configuration records, the           *)
(* post-construction derivation of ExperimentConfig and the environment     *)
(* overlay load_config_from_env.                                            *)
(*                                                                          *)
(* A Python str is a sequence of one-character strings, so that lower()    *)
(* and f-string concatenation are computed.  Strings that the module only  *)
(* stores and never inspects are kept as TLA+ strings; floats are kept as   *)
(* their literals.                                                          *)
(***************************************************************************)
EXTENDS Integers, Sequences, FiniteSets, TLC

VARIABLES
    train,        \* the external module `train` as the import system sees it
    env,          \* os.environ: a function from the names present to their values
    pc,           \* position of the caller / of load_config_from_env
    mode,         \* "none", "direct" (ExperimentConfig(...)) or "load"
    args,         \* the arguments given to the ExperimentConfig constructor
    config,       \* the ExperimentConfig under construction / returned, or NoConfig
    error,        \* the exception that left the call, or NoError
    result,       \* the object the caller received, or NoConfig
    derivations,  \* how many times __post_init__ has run
    heap,         \* object store: address -> object (used by the aliasing spec)
    insts,        \* the ExperimentConfig objects built so far (aliasing spec)
    writes        \* how many field writes callers have made (aliasing spec)

vars == <<train, env, pc, mode, args, config, error, result, derivations, heap, insts, writes>>

lifeVars == <<pc, mode, args, config, error, result, derivations>>
heapVars == <<heap, insts, writes>>

----------------------------------------------------------------------------
(* String literals of config.py *)

\* None: distinct from every str (its one element is not a character)
None == <<"None">>

DefaultModelName ==
    <<"c", "o", "d", "e", "l", "l", "a", "m", "a", "/", "C", "o", "d", "e", "L",
      "l", "a", "m", "a", "-", "7", "b", "-", "P", "y", "t", "h", "o", "n", "-",
      "h", "f">>

FallbackShortName == <<"c", "o", "d", "e", "l", "l", "a", "m", "a", "-", "7", "b">>

CheckpointsPrefix ==
    <<".", "/", "c", "h", "e", "c", "k", "p", "o", "i", "n", "t", "s", "/">>

DefaultOutputDir ==
    <<".", "/", "c", "h", "e", "c", "k", "p", "o", "i", "n", "t", "s">>

DefaultHubModelId ==
    <<"c", "o", "d", "e", "l", "l", "a", "m", "a", "-", "7", "b", "-", "m", "b",
      "p", "p", "-", "q", "l", "o", "r", "a">>

DefaultWandbProject ==
    <<"c", "o", "d", "e", "l", "l", "a", "m", "a", "-", "m", "b", "p", "p", "-",
      "f", "i", "n", "e", "t", "u", "n", "i", "n", "g">>

Dash == <<"-">>

QloraSuffix == <<"-", "q", "l", "o", "r", "a">>

PPO == <<"p", "p", "o">>

GRPO == <<"g", "r", "p", "o">>

DefaultMethod == PPO

ValidMethods == {PPO, GRPO}

AssertPrefix ==
    <<"M", "e", "t", "h", "o", "d", " ", "m", "u", "s", "t", " ", "b", "e", " ",
      "'", "p", "p", "o", "'", " ", "o", "r", " ", "'", "g", "r", "p", "o", "'",
      ",", " ", "g", "o", "t", " ">>

----------------------------------------------------------------------------
(* str.lower(), on the ASCII letters *)

UpperChars ==
    <<"A", "B", "C", "D", "E", "F", "G", "H", "I", "J", "K", "L", "M", "N", "O",
      "P", "Q", "R", "S", "T", "U", "V", "W", "X", "Y", "Z">>

LowerChars ==
    <<"a", "b", "c", "d", "e", "f", "g", "h", "i", "j", "k", "l", "m", "n", "o",
      "p", "q", "r", "s", "t", "u", "v", "w", "x", "y", "z">>

LowerChar(c) ==
    IF \E k \in DOMAIN UpperChars : UpperChars[k] = c
    THEN LowerChars[CHOOSE k \in DOMAIN UpperChars : UpperChars[k] = c]
    ELSE c

\* a plausible slip: the value is used as given, without case folding
lower_Identity(s) == s

lower(s) == [i \in 1..Len(s) |-> LowerChar(s[i])]

----------------------------------------------------------------------------
(* The four group records with their declared defaults.  Each constructor   *)
(* takes the fields the callers of this model vary.                          *)

DefaultLoraTargetModules ==
    <<"q_proj", "k_proj", "v_proj", "o_proj", "gate_proj", "up_proj", "down_proj">>

ModelConfig(model_name, lora_target_modules) ==
    [ model_name             |-> model_name,
      use_4bit               |-> TRUE,
      bnb_4bit_compute_dtype |-> "float16",
      bnb_4bit_quant_type    |-> "nf4",
      use_nested_quant       |-> FALSE,
      lora_r                 |-> 64,
      lora_alpha             |-> 16,
      lora_dropout           |-> "0.1",
      lora_target_modules    |-> lora_target_modules,
      max_seq_length         |-> 1024,
      trust_remote_code      |-> TRUE ]

DataConfig ==
    [ dataset_name          |-> "mbpp",
      split                 |-> "train",
      max_prompt_length     |-> 512,
      max_completion_length |-> 512,
      train_test_split      |-> "0.9",
      num_proc              |-> 4,
      max_samples           |-> None ]

TrainingConfig(output_dir) ==
    [ output_dir                  |-> output_dir,
      per_device_train_batch_size |-> 12,
      per_device_eval_batch_size  |-> 12,
      gradient_accumulation_steps |-> 1,
      num_train_epochs            |-> 2,
      learning_rate               |-> "3e-6",
      lr_scheduler_type           |-> "cosine",
      warmup_ratio                |-> "0.05",
      weight_decay                |-> "0.01",
      max_grad_norm               |-> "0.5",
      eval_steps                  |-> 250,
      logging_steps               |-> 5,
      save_steps                  |-> 250,
      save_total_limit            |-> 5,
      load_best_model_at_end      |-> TRUE,
      metric_for_best_model       |-> "eval_test_pass_rate",
      greater_is_better           |-> TRUE,
      ppo_epochs                  |-> 4,
      mini_batch_size             |-> 1,
      vf_coef                     |-> "0.1",
      cliprange                   |-> "0.2",
      cliprange_value             |-> "0.15",
      gamma                       |-> "1.0",
      lam                         |-> "0.95",
      target_kl                   |-> "0.5",
      num_samples                 |-> 8,
      kl_coeff                    |-> "0.02",
      clip_range                  |-> "0.2",
      entropy_coeff               |-> "0.01",
      use_advantage_whitening     |-> TRUE,
      advantage_norm_eps          |-> "1e-8",
      temperature_schedule        |-> TRUE,
      initial_temperature         |-> "1.0",
      min_temperature             |-> "0.7",
      max_new_tokens              |-> 2048,
      do_sample                   |-> TRUE,
      temperature                 |-> "0.2",
      top_p                       |-> "0.9",
      reward_model_path           |-> None,
      code_execution_timeout      |-> "3.0" ]

HuggingFaceConfig(hub_model_id) ==
    [ hub_model_id     |-> hub_model_id,
      hub_token        |-> None,
      push_to_hub      |-> TRUE,
      hub_private_repo |-> FALSE,
      hub_strategy     |-> "every_save" ]

----------------------------------------------------------------------------
(* The external module `train`.  It is one of: absent from the import path, *)
(* importable but without the name extract_model_short_name, failing at     *)
(* import time with an error that is not an ImportError, or loaded with a    *)
(* function from model names to results (a string, or an exception raised    *)
(* by the call).                                                            *)

CustomModelName == <<"Q", "w", "e", "n", "/", "Q", "2">>

ModelNames == {DefaultModelName, CustomModelName}

ShortNames == {<<"c", "l", "7">>, <<"q", "2">>}

Value(s) == [kind |-> "value", value |-> s]

Raise(e) == [kind |-> "raise", exc |-> e]

CallResults ==
    {Value(s) : s \in ShortNames} \cup {Raise("ImportError"), Raise("RuntimeError")}

TrainModules ==
    {[state |-> "absent"], [state |-> "no_function"], [state |-> "broken"]}
        \cup {[state |-> "loaded", fn |-> f] : f \in [ModelNames -> CallResults]}

\* `from train import extract_model_short_name`: the outcome of the import
ImportFromTrain(trainMod) ==
    CASE trainMod.state = "absent"      -> Raise("ModuleNotFoundError")
      [] trainMod.state = "no_function" -> Raise("ImportError")
      [] trainMod.state = "broken"      -> Raise("RuntimeError")
      [] trainMod.state = "loaded"      -> Value(trainMod.fn)

\* extract_model_short_name(model_name), once imported
extract_model_short_name(fn, model_name) == fn[model_name]

\* the try block of __post_init__: the import, then the call
TryShortName(trainMod, model_name) ==
    LET imp == ImportFromTrain(trainMod)
    IN  IF imp.kind = "raise" THEN imp
        ELSE extract_model_short_name(imp.value, model_name)

\* a plausible slip: only the absence of the module is handled
CaughtByExcept_ModuleOnly(exc) == exc = "ModuleNotFoundError"

\* `except ImportError`: ImportError and its subclass ModuleNotFoundError
CaughtByExcept(exc) == exc \in {"ImportError", "ModuleNotFoundError"}

----------------------------------------------------------------------------
(* ExperimentConfig: the generated __init__ and __post_init__ *)

NoConfig == [none |-> TRUE]

NoError == [type |-> "none", msg |-> <<>>]

Exception(type, msg) == [type |-> type, msg |-> msg]

DefaultArgs ==
    [ model          |-> ModelConfig(DefaultModelName, DefaultLoraTargetModules),
      data           |-> DataConfig,
      training       |-> TrainingConfig(DefaultOutputDir),
      hf             |-> HuggingFaceConfig(DefaultHubModelId),
      seed           |-> 42,
      method         |-> DefaultMethod,
      use_wandb      |-> TRUE,
      wandb_project  |-> DefaultWandbProject,
      wandb_run_name |-> None ]

\* the dataclass-generated __init__ stores each argument in its field
ExperimentConfigInit(a) ==
    [ model          |-> a.model,
      data           |-> a.data,
      training       |-> a.training,
      hf             |-> a.hf,
      seed           |-> a.seed,
      method         |-> a.method,
      use_wandb      |-> a.use_wandb,
      wandb_project  |-> a.wandb_project,
      wandb_run_name |-> a.wandb_run_name ]

\* f"{model_short_name}-{self.method}-qlora"
RunName(model_short_name, method) == model_short_name \o Dash \o method \o QloraSuffix

\* a plausible slip: a run name given by the caller is kept
Derive_KeepRunName(self, model_short_name) ==
    [self EXCEPT
        !.training.output_dir = CheckpointsPrefix \o RunName(model_short_name, self.method),
        !.hf.hub_model_id     = RunName(model_short_name, self.method),
        !.wandb_run_name      = IF self.wandb_run_name = None
                                THEN RunName(model_short_name, self.method)
                                ELSE self.wandb_run_name]

\* a plausible slip: the hub id is built from the model name alone
Derive_HubIdWithoutMethod(self, model_short_name) ==
    [self EXCEPT
        !.training.output_dir = CheckpointsPrefix \o RunName(model_short_name, self.method),
        !.hf.hub_model_id     = model_short_name \o QloraSuffix,
        !.wandb_run_name      = RunName(model_short_name, self.method)]

\* the three assignments of __post_init__
Derive(self, model_short_name) ==
    [self EXCEPT
        !.training.output_dir = CheckpointsPrefix \o RunName(model_short_name, self.method),
        !.hf.hub_model_id     = RunName(model_short_name, self.method),
        !.wandb_run_name      = RunName(model_short_name, self.method)]

\* __post_init__: the outcome is the exception that leaves it (or NoError)
\* and the object as it stands then
post_init(self, trainMod) ==
    LET r == TryShortName(trainMod, self.model.model_name)
    IN  IF r.kind = "value"
        THEN [exc |-> NoError, self |-> Derive(self, r.value)]
        ELSE IF CaughtByExcept(r.exc)
        THEN [exc |-> NoError, self |-> Derive(self, FallbackShortName)]
        ELSE [exc |-> Exception(r.exc, <<>>), self |-> self]

\* ExperimentConfig(**a)
ExperimentConfig(a, trainMod) == post_init(ExperimentConfigInit(a), trainMod)

----------------------------------------------------------------------------
(* load_config_from_env, statement by statement *)

\* a plausible slip: `if os.environ.get("HF_TOKEN"):` skips an empty value
OverlayHfToken_Truthy(cfg, e) ==
    IF "HF_TOKEN" \in DOMAIN e /\ e["HF_TOKEN"] # <<>>
    THEN [cfg EXCEPT !.hf.hub_token = e["HF_TOKEN"]]
    ELSE cfg

OverlayHfToken(cfg, e) ==
    IF "HF_TOKEN" \in DOMAIN e
    THEN [cfg EXCEPT !.hf.hub_token = e["HF_TOKEN"]]
    ELSE cfg

\* a plausible slip: the project name is also used as the run name
OverlayWandbProject_AlsoRunName(cfg, e) ==
    IF "WANDB_PROJECT" \in DOMAIN e
    THEN [cfg EXCEPT !.wandb_project = e["WANDB_PROJECT"],
                     !.wandb_run_name = e["WANDB_PROJECT"]]
    ELSE cfg

OverlayWandbProject(cfg, e) ==
    IF "WANDB_PROJECT" \in DOMAIN e
    THEN [cfg EXCEPT !.wandb_project = e["WANDB_PROJECT"]]
    ELSE cfg

\* a plausible change: the derivation is run again after the method is set
OverlayMethod_Rederive(cfg, e) ==
    IF "METHOD" \in DOMAIN e
    THEN post_init([cfg EXCEPT !.method = lower(e["METHOD"])], train).self
    ELSE cfg

OverlayMethod(cfg, e) ==
    IF "METHOD" \in DOMAIN e
    THEN [cfg EXCEPT !.method = lower(e["METHOD"])]
    ELSE cfg

\* a plausible slip: the assertion is compiled away or never written
MethodAssertion_Skipped(cfg) == NoError

\* assert config.method in ["ppo", "grpo"], f"Method must be ..., got {config.method}"
MethodAssertion(cfg) ==
    IF cfg.method \in ValidMethods
    THEN NoError
    ELSE Exception("AssertionError", AssertPrefix \o cfg.method)

\* the whole call: the exception that leaves it, or the config it returns
load_config_from_env(e, trainMod) ==
    LET c0 == ExperimentConfig(DefaultArgs, trainMod)
        c1 == OverlayHfToken(c0.self, e)
        c2 == OverlayWandbProject(c1, e)
        c3 == OverlayMethod(c2, e)
        a  == IF "METHOD" \in DOMAIN e THEN MethodAssertion(c3) ELSE NoError
    IN  IF c0.exc # NoError THEN [exc |-> c0.exc, config |-> NoConfig]
        ELSE IF a # NoError THEN [exc |-> a, config |-> NoConfig]
        ELSE [exc |-> NoError, config |-> c3]

----------------------------------------------------------------------------
(* Inputs: the environments and the constructor arguments explored *)

EnvNames == {"HF_TOKEN", "WANDB_PROJECT", "METHOD", "MODEL_NAME"}

EnvValuesOf(name) ==
    CASE name = "HF_TOKEN"      -> {<<>>, <<"a", "b", "c", "1", "2", "3">>}
      [] name = "WANDB_PROJECT" -> {<<"p", "r", "j">>}
      [] name = "METHOD"        -> {PPO, <<"G", "R", "P", "O">>, <<"G", "r", "p", "o">>,
                                    <<"b", "o", "g", "u", "s">>, <<"B", "O", "G", "U", "S">>,
                                    <<>>}
      [] name = "MODEL_NAME"    -> {CustomModelName}

AllEnvValues == UNION {EnvValuesOf(n) : n \in EnvNames}

Environments ==
    {e \in UNION {[D -> AllEnvValues] : D \in SUBSET EnvNames} :
        \A n \in DOMAIN e : e[n] \in EnvValuesOf(n)}

SuppliedMethods == {PPO, GRPO, <<"s", "f", "t">>}

SuppliedOutputDirs == {DefaultOutputDir, <<"o", "u", "t">>}

SuppliedHubModelIds == {DefaultHubModelId, <<"m", "e", "/", "r">>}

SuppliedRunNames == {None, <<"r", "u", "n">>}

ConstructorArgs ==
    {[DefaultArgs EXCEPT !.model          = ModelConfig(m, DefaultLoraTargetModules),
                         !.training       = TrainingConfig(od),
                         !.hf             = HuggingFaceConfig(h),
                         !.method         = me,
                         !.wandb_run_name = w] :
        m \in ModelNames, od \in SuppliedOutputDirs, h \in SuppliedHubModelIds,
        me \in SuppliedMethods, w \in SuppliedRunNames}

----------------------------------------------------------------------------
(* One ExperimentConfig from construction to hand-over: either built        *)
(* directly by a caller, or built and overlaid by load_config_from_env.      *)

NoArgs == [none |-> TRUE]

InitLife ==
    /\ train \in TrainModules
    /\ env \in Environments
    /\ pc = "start"
    /\ mode = "none"
    /\ args = NoArgs
    /\ config = NoConfig
    /\ error = NoError
    /\ result = NoConfig
    /\ derivations = 0
    /\ heap = <<>>
    /\ insts = <<>>
    /\ writes = 0

\* a caller evaluates ExperimentConfig(**a)
Construct(a) ==
    /\ pc = "start"
    /\ mode' = "direct"
    /\ args' = a
    /\ derivations' = derivations + 1
    /\ LET r == ExperimentConfig(a, train)
       IN  IF r.exc = NoError
           THEN /\ config' = r.self
                /\ result' = r.self
                /\ error' = NoError
                /\ pc' = "constructed"
           ELSE /\ config' = NoConfig
                /\ result' = NoConfig
                /\ error' = r.exc
                /\ pc' = "raised"
    /\ UNCHANGED <<train, env, heapVars>>

\* line 144: config = ExperimentConfig()
LoadConstruct ==
    /\ pc = "start"
    /\ mode' = "load"
    /\ args' = DefaultArgs
    /\ derivations' = derivations + 1
    /\ LET r == ExperimentConfig(DefaultArgs, train)
       IN  IF r.exc = NoError
           THEN /\ config' = r.self
                /\ error' = NoError
                /\ pc' = "L147"
           ELSE /\ config' = NoConfig
                /\ error' = r.exc
                /\ pc' = "raised"
    /\ UNCHANGED <<result, train, env, heapVars>>

\* lines 147-148
LoadHfToken ==
    /\ pc = "L147"
    /\ config' = OverlayHfToken(config, env)
    /\ pc' = "L151"
    /\ UNCHANGED <<mode, args, error, result, derivations, train, env, heapVars>>

\* lines 151-152
LoadWandbProject ==
    /\ pc = "L151"
    /\ config' = OverlayWandbProject(config, env)
    /\ pc' = "L155"
    /\ UNCHANGED <<mode, args, error, result, derivations, train, env, heapVars>>

\* lines 155-156: the assertion is reached only when METHOD is present
LoadMethod ==
    /\ pc = "L155"
    /\ config' = OverlayMethod(config, env)
    /\ pc' = IF "METHOD" \in DOMAIN env THEN "L157" ELSE "L159"
    /\ UNCHANGED <<mode, args, error, result, derivations, train, env, heapVars>>

\* line 157
LoadAssert ==
    /\ pc = "L157"
    /\ error' = MethodAssertion(config)
    /\ pc' = IF MethodAssertion(config) = NoError THEN "L159" ELSE "raised"
    /\ UNCHANGED <<mode, args, config, result, derivations, train, env, heapVars>>

\* line 159
LoadReturn ==
    /\ pc = "L159"
    /\ result' = config
    /\ pc' = "returned"
    /\ UNCHANGED <<mode, args, config, error, derivations, train, env, heapVars>>

Next ==
    \/ \E a \in ConstructorArgs : Construct(a)
    \/ LoadConstruct
    \/ LoadHfToken
    \/ LoadWandbProject
    \/ LoadMethod
    \/ LoadAssert
    \/ LoadReturn

Spec == InitLife /\ [][Next]_vars

----------------------------------------------------------------------------
(* Properties of one ExperimentConfig (specification Spec) *)

\* the short name the derivation is expected to use for model name M: the
\* value of the naming function when it is resolved and returns, the literal
\* otherwise
ShortOf(trainMod, M) ==
    IF trainMod.state = "loaded" /\ trainMod.fn[M].kind = "value"
    THEN trainMod.fn[M].value
    ELSE <<"c", "o", "d", "e", "l", "l", "a", "m", "a", "-", "7", "b">>

ExpectedName(short, method) == short \o <<"-">> \o method \o <<"-", "q", "l", "o", "r", "a">>

ExpectedDir(short, method) ==
    <<".", "/", "c", "h", "e", "c", "k", "p", "o", "i", "n", "t", "s", "/">>
        \o ExpectedName(short, method)

\* the naming function is resolved and returns for M, or cannot be resolved
ResolvedOrUnresolvable(trainMod, M) ==
    \/ trainMod.state \in {"absent", "no_function"}
    \/ trainMod.state = "loaded" /\ trainMod.fn[M].kind = "value"

\* C1: right after a direct construction completes, hub_model_id and
\* wandb_run_name are short(M)-method-qlora and output_dir is that name under
\* ./checkpoints/, for every model name, method and supplied value of the
\* three fields; short is the naming function, or "codellama-7b" when the
\* function cannot be resolved.
C1_NamingLaw ==
    (pc = "constructed" /\ ResolvedOrUnresolvable(train, args.model.model_name)) =>
        LET short == ShortOf(train, args.model.model_name)
        IN  /\ result.hf.hub_model_id = ExpectedName(short, args.method)
            /\ result.wandb_run_name = ExpectedName(short, args.method)
            /\ result.training.output_dir = ExpectedDir(short, args.method)

C1_Witness ==
    /\ pc = "constructed"
    /\ train.state = "loaded"
    /\ args.model.model_name = CustomModelName
    /\ train.fn[CustomModelName] = Value(<<"q", "2">>)
    /\ args.method = GRPO
    /\ args.training.output_dir = <<"o", "u", "t">>
    /\ args.hf.hub_model_id = <<"m", "e", "/", "r">>
    /\ args.wandb_run_name = <<"r", "u", "n">>
    /\ result.wandb_run_name = <<"q", "2", "-", "g", "r", "p", "o", "-", "q", "l", "o", "r", "a">>

\* C2 as stated: no ExperimentConfig ever holds a method outside
\* {"ppo", "grpo"}, however it was built and at every step of
\* load_config_from_env.
C2_MethodAlwaysValid ==
    config # NoConfig => config.method \in {PPO, GRPO}

\* C2 amended: inside load_config_from_env the method is in {"ppo", "grpo"}
\* at every step except between the overwrite and the assertion, and in the
\* config it returns; a directly constructed config holds the method it was
\* given, unchecked.
C2_LoadedMethodValid ==
    /\ (mode = "load" /\ config # NoConfig /\ pc \notin {"L157", "raised"})
           => config.method \in {PPO, GRPO}
    /\ pc = "returned" => result.method \in {PPO, GRPO}
    /\ pc = "constructed" => result.method = args.method

C2_Witness ==
    /\ pc = "returned"
    /\ "METHOD" \in DOMAIN env
    /\ env["METHOD"] = <<"G", "r", "p", "o">>
    /\ result.method = GRPO

\* the lower-case form of each METHOD value explored, written out
ExpectedFold(v) ==
    CASE v = <<"G", "R", "P", "O">>      -> <<"g", "r", "p", "o">>
      [] v = <<"G", "r", "p", "o">>      -> <<"g", "r", "p", "o">>
      [] v = <<"B", "O", "G", "U", "S">> -> <<"b", "o", "g", "u", "s">>
      [] OTHER                           -> v

\* C3: once the default config is built, load_config_from_env with METHOD = V
\* returns a config whose method is lower(V) when that is "ppo" or "grpo",
\* and otherwise ends in an AssertionError whose message carries lower(V),
\* returning nothing; without METHOD the returned method is "ppo".
C3_MethodValidation ==
    /\ pc = "returned" =>
           IF "METHOD" \in DOMAIN env
           THEN /\ ExpectedFold(env["METHOD"]) \in {PPO, GRPO}
                /\ result.method = ExpectedFold(env["METHOD"])
           ELSE result.method = PPO
    /\ (pc = "raised" /\ error.type = "AssertionError") =>
           /\ "METHOD" \in DOMAIN env
           /\ ExpectedFold(env["METHOD"]) \notin {PPO, GRPO}
           /\ error.msg = AssertPrefix \o ExpectedFold(env["METHOD"])
           /\ result = NoConfig
    /\ (mode = "load" /\ pc \notin {"returned", "raised"}) => ENABLED Next

C3_Witness ==
    /\ pc = "returned"
    /\ "METHOD" \in DOMAIN env
    /\ env["METHOD"] = <<"G", "R", "P", "O">>
    /\ result.method = GRPO

\* C4: the config returned by load_config_from_env has hub_model_id and
\* wandb_run_name equal to short-method-qlora and output_dir equal to
\* ./checkpoints/ + hub_model_id, where method is the returned method.
C4_NamesFollowMethod ==
    pc = "returned" =>
        LET short == ShortOf(train, result.model.model_name)
        IN  /\ result.hf.hub_model_id = ExpectedName(short, result.method)
            /\ result.wandb_run_name = ExpectedName(short, result.method)
            /\ result.training.output_dir = ExpectedDir(short, result.method)

\* the failure the try block ends in is an ImportError (or a subclass)
FailsWithImportError(trainMod, M) ==
    \/ trainMod.state \in {"absent", "no_function"}
    \/ trainMod.state = "loaded" /\ trainMod.fn[M] = Raise("ImportError")

\* C6 as stated: construction never surfaces an error to the caller.
C6_ConstructionNeverRaises ==
    pc = "raised" => error.type = "AssertionError"

\* C6 amended: when obtaining the short name fails with an ImportError (the
\* module is absent, the function is missing from it, or the call raises
\* one), construction completes with the short name "codellama-7b" whatever
\* the model name; any other exception of the import or the call leaves
\* the constructor.
C6_ImportErrorSwallowed ==
    /\ (mode # "none" /\ FailsWithImportError(train, args.model.model_name)) =>
           /\ config # NoConfig
           /\ config.hf.hub_model_id =
                  ExpectedName(<<"c", "o", "d", "e", "l", "l", "a", "m", "a", "-", "7", "b">>,
                               args.method)
    /\ (pc = "raised" /\ error.type # "AssertionError") =>
           /\ ~FailsWithImportError(train, args.model.model_name)
           /\ error.type = "RuntimeError"
           /\ result = NoConfig

C6_Witness ==
    /\ pc = "constructed"
    /\ train.state = "no_function"
    /\ args.model.model_name = CustomModelName
    /\ result.hf.hub_model_id =
           <<"c", "o", "d", "e", "l", "l", "a", "m", "a", "-", "7", "b">>
               \o <<"-">> \o args.method \o <<"-", "q", "l", "o", "r", "a">>

\* C7: in the config load_config_from_env returns, hf.hub_token is the raw
\* HF_TOKEN value when the variable is present (the empty string included)
\* and None when absent; wandb_project is the raw WANDB_PROJECT value when
\* present and "codellama-mbpp-finetuning" when absent.
C7_TokenAndProject ==
    pc = "returned" =>
        /\ result.hf.hub_token =
               IF "HF_TOKEN" \in DOMAIN env THEN env["HF_TOKEN"] ELSE None
        /\ result.wandb_project =
               IF "WANDB_PROJECT" \in DOMAIN env THEN env["WANDB_PROJECT"]
               ELSE DefaultWandbProject

C7_Witness ==
    /\ pc = "returned"
    /\ "HF_TOKEN" \in DOMAIN env
    /\ env["HF_TOKEN"] = <<>>
    /\ result.hf.hub_token = <<>>
    /\ "WANDB_PROJECT" \in DOMAIN env
    /\ result.wandb_project = <<"p", "r", "j">>

\* C8: when METHOD is present and valid, the returned config still carries
\* the names derived from the default method "ppo", whatever the returned
\* method is, and the derivation has run exactly once.
C8_StaleNames ==
    (pc = "returned" /\ "METHOD" \in DOMAIN env) =>
        LET short == ShortOf(train, DefaultModelName)
        IN  /\ result.hf.hub_model_id = ExpectedName(short, <<"p", "p", "o">>)
            /\ result.wandb_run_name = ExpectedName(short, <<"p", "p", "o">>)
            /\ result.training.output_dir = ExpectedDir(short, <<"p", "p", "o">>)
            /\ derivations = 1

C8_Witness ==
    /\ pc = "returned"
    /\ "METHOD" \in DOMAIN env
    /\ result.method = GRPO
    /\ train.state = "absent"
    /\ result.hf.hub_model_id =
           <<"c", "o", "d", "e", "l", "l", "a", "m", "a", "-", "7", "b", "-",
             "p", "p", "o", "-", "q", "l", "o", "r", "a">>

\* C9: the config load_config_from_env returns equals a freshly constructed
\* default ExperimentConfig() in every field except hf.hub_token,
\* wandb_project and method, whatever else the environment holds, and no
\* step changes the environment.
C9_OverlayFrame ==
    /\ [](pc = "returned" =>
             [result EXCEPT !.hf.hub_token = None,
                            !.wandb_project = DefaultWandbProject,
                            !.method = DefaultMethod]
                 = ExperimentConfig(DefaultArgs, train).self)
    /\ [][env' = env]_vars

C9_Witness ==
    /\ pc = "returned"
    /\ DOMAIN env = EnvNames
    /\ result.method = GRPO
    /\ result.hf.hub_token # None

----------------------------------------------------------------------------
(* Object identity.  The heap is a sequence of objects and an address is an  *)
(* index into it.  A ModelConfig object holds the address of its             *)
(* lora_target_modules list; an ExperimentConfig holds the addresses of its  *)
(* four sub-records.                                                        *)

MaxInstances == 2

MaxWrites == 1

Alloc(h, obj) == [heap |-> Append(h, obj), addr |-> Len(h) + 1]

\* a plausible slip: one list shared as a mutable default
NewTargetModules_Shared(h) ==
    IF \E a \in DOMAIN h : h[a].kind = "list"
    THEN [heap |-> h, addr |-> CHOOSE a \in DOMAIN h : h[a].kind = "list"]
    ELSE Alloc(h, [kind |-> "list", items |-> DefaultLoraTargetModules])

\* field(default_factory=lambda: [...]): a new list at every call
NewTargetModules(h) ==
    Alloc(h, [kind |-> "list", items |-> DefaultLoraTargetModules])

\* ModelConfig(), or ModelConfig(lora_target_modules=<the list at sup["list"]>)
NewModelConfig(h, sup) ==
    LET l == IF "list" \in DOMAIN sup
             THEN [heap |-> h, addr |-> sup["list"]]
             ELSE NewTargetModules(h)
    IN  Alloc(l.heap, [kind |-> "ModelConfig",
                       fields |-> ModelConfig(DefaultModelName, l.addr)])

\* field(default_factory=DataConfig), and likewise for the other groups
NewDataConfig(h) == Alloc(h, [kind |-> "DataConfig", fields |-> DataConfig])

NewTrainingConfig(h) ==
    Alloc(h, [kind |-> "TrainingConfig", fields |-> TrainingConfig(DefaultOutputDir)])

NewHuggingFaceConfig(h) ==
    Alloc(h, [kind |-> "HuggingFaceConfig", fields |-> HuggingFaceConfig(DefaultHubModelId)])

\* the sub-record given by the caller, or the default factory's new one
SubRecord(h, sup, name, made) ==
    IF name \in DOMAIN sup THEN [heap |-> h, addr |-> sup[name]] ELSE made

\* ExperimentConfig(method=me, **sup) on the heap: the sub-records are taken
\* from sup or made by the default factories, __post_init__ then writes
\* output_dir and hub_model_id into the objects the new instance refers to
NewExperimentConfig(h, sup, me, trainMod) ==
    LET m  == SubRecord(h, sup, "model", NewModelConfig(h, sup))
        d  == SubRecord(m.heap, sup, "data", NewDataConfig(m.heap))
        t  == SubRecord(d.heap, sup, "training", NewTrainingConfig(d.heap))
        f  == SubRecord(t.heap, sup, "hf", NewHuggingFaceConfig(t.heap))
        h1 == f.heap
        a  == [DefaultArgs EXCEPT !.model = h1[m.addr].fields,
                                  !.data = h1[d.addr].fields,
                                  !.training = h1[t.addr].fields,
                                  !.hf = h1[f.addr].fields,
                                  !.method = me]
        r  == ExperimentConfig(a, trainMod)
    IN  [exc  |-> r.exc,
         heap |-> [h1 EXCEPT ![t.addr].fields = r.self.training,
                             ![f.addr].fields = r.self.hf],
         inst |-> [model |-> m.addr, data |-> d.addr, training |-> t.addr,
                   hf |-> f.addr, seed |-> r.self.seed, method |-> r.self.method,
                   use_wandb |-> r.self.use_wandb,
                   wandb_project |-> r.self.wandb_project,
                   wandb_run_name |-> r.self.wandb_run_name,
                   supplied |-> DOMAIN sup]]

\* the value of instance x: every field, with the addresses followed
View(h, x) ==
    [ model          |-> [h[x.model].fields EXCEPT
                             !.lora_target_modules =
                                 h[h[x.model].fields.lora_target_modules].items],
      data           |-> h[x.data].fields,
      training       |-> h[x.training].fields,
      hf             |-> h[x.hf].fields,
      seed           |-> x.seed,
      method         |-> x.method,
      use_wandb      |-> x.use_wandb,
      wandb_project  |-> x.wandb_project,
      wandb_run_name |-> x.wandb_run_name ]

\* the mutable objects instance x refers to
Parts(h, x) ==
    {x.model, x.data, x.training, x.hf, h[x.model].fields.lora_target_modules}

----------------------------------------------------------------------------
(* Several ExperimentConfig objects in one process *)

AliasTrainModules ==
    {[state |-> "loaded", fn |-> [m \in ModelNames |-> Value(<<"q", "2">>)]]}

AliasEnvironments ==
    {e \in Environments :
        \/ DOMAIN e = {}
        \/ /\ DOMAIN e = {"HF_TOKEN", "METHOD"}
           /\ e["HF_TOKEN"] # <<>>
           /\ e["METHOD"] = <<"G", "R", "P", "O">>}

\* the ways a caller hands existing objects of instance j to a constructor
SuppliedShapes ==
    {{"model"}, {"list"}, {"data"}, {"training"}, {"hf"}, {"training", "hf"},
     {"model", "data", "training", "hf"}}

SuppliedFrom(h, x, shape) ==
    [n \in shape |->
        CASE n = "model"    -> x.model
          [] n = "data"     -> x.data
          [] n = "training" -> x.training
          [] n = "hf"       -> x.hf
          [] n = "list"     -> h[x.model].fields.lora_target_modules]

NoSupplied == [n \in {} |-> 0]

InitAlias ==
    /\ train \in AliasTrainModules
    /\ env \in AliasEnvironments
    /\ pc = "start"
    /\ mode = "none"
    /\ args = NoArgs
    /\ config = NoConfig
    /\ error = NoError
    /\ result = NoConfig
    /\ derivations = 0
    /\ heap = <<>>
    /\ insts = <<>>
    /\ writes = 0

\* ExperimentConfig(): every sub-record comes from its default factory
NewDefault ==
    /\ Len(insts) < MaxInstances
    /\ LET r == NewExperimentConfig(heap, NoSupplied, DefaultMethod, train)
       IN  /\ r.exc = NoError
           /\ heap' = r.heap
           /\ insts' = Append(insts, r.inst)
    /\ derivations' = derivations + 1
    /\ UNCHANGED <<train, env, pc, mode, args, config, error, result, writes>>

\* ExperimentConfig(method=me, ...) given sub-records (or the list) of instance j
NewWithSupplied(j, shape, me) ==
    /\ Len(insts) < MaxInstances
    /\ j \in DOMAIN insts
    /\ LET r == NewExperimentConfig(heap, SuppliedFrom(heap, insts[j], shape), me, train)
       IN  /\ r.exc = NoError
           /\ heap' = r.heap
           /\ insts' = Append(insts, r.inst)
    /\ derivations' = derivations + 1
    /\ UNCHANGED <<train, env, pc, mode, args, config, error, result, writes>>

\* config = load_config_from_env(): a default construction, then the overlay
\* written into the new instance and its own hf record
LoadFromEnv ==
    /\ Len(insts) < MaxInstances
    /\ LET r == NewExperimentConfig(heap, NoSupplied, DefaultMethod, train)
           c == load_config_from_env(env, train)
       IN  /\ c.exc = NoError
           /\ heap' = [r.heap EXCEPT ![r.inst.hf].fields = c.config.hf]
           /\ insts' = Append(insts, [r.inst EXCEPT !.method = c.config.method,
                                                    !.wandb_project = c.config.wandb_project])
    /\ derivations' = derivations + 1
    /\ UNCHANGED <<train, env, pc, mode, args, config, error, result, writes>>

\* the assignments callers make to an instance's fields, one per object
FieldWrites ==
    {[group |-> "model", field |-> "lora_r"],
     [group |-> "data", field |-> "num_proc"],
     [group |-> "training", field |-> "learning_rate"],
     [group |-> "hf", field |-> "push_to_hub"],
     [group |-> "self", field |-> "seed"]}

\* the value each of them assigns
NewValue(w) ==
    CASE w.field = "lora_r"        -> 8
      [] w.field = "num_proc"      -> 1
      [] w.field = "learning_rate" -> "1e-5"
      [] w.field = "push_to_hub"   -> FALSE
      [] w.field = "seed"          -> 0

\* insts[i].<group>.<field> = value, or insts[i].<field> = value
WriteField(i, w) ==
    /\ i \in DOMAIN insts
    /\ writes < MaxWrites
    /\ writes' = writes + 1
    /\ IF w.group = "self"
       THEN /\ insts' = [insts EXCEPT ![i] = [@ EXCEPT ![w.field] = NewValue(w)]]
            /\ heap' = heap
       ELSE /\ heap' = [heap EXCEPT ![insts[i][w.group]].fields =
                                        [@ EXCEPT ![w.field] = NewValue(w)]]
            /\ insts' = insts
    /\ UNCHANGED <<train, env, lifeVars>>

\* insts[i].model.lora_target_modules.append("lm_head")
AppendTargetModule(i) ==
    /\ i \in DOMAIN insts
    /\ writes < MaxWrites
    /\ writes' = writes + 1
    /\ heap' = [heap EXCEPT ![heap[insts[i].model].fields.lora_target_modules].items =
                                Append(@, "lm_head")]
    /\ UNCHANGED <<insts, train, env, lifeVars>>

NextAlias ==
    \/ NewDefault
    \/ \E j \in DOMAIN insts, shape \in SuppliedShapes, me \in ValidMethods :
           NewWithSupplied(j, shape, me)
    \/ LoadFromEnv
    \/ \E i \in DOMAIN insts, w \in FieldWrites : WriteField(i, w)
    \/ \E i \in DOMAIN insts : AppendTargetModule(i)

SpecAlias == InitAlias /\ [][NextAlias]_vars

----------------------------------------------------------------------------
(* Properties of several instances (specification SpecAlias) *)

WriteTo(i) == (\E w \in FieldWrites : WriteField(i, w)) \/ AppendTargetModule(i)

DefaultBuilt(i) == insts[i].supplied = {}

\* C5 as stated: any two ExperimentConfig objects from separate
\* constructions have pairwise distinct model, data, training and hf records
\* and lora_target_modules lists.
C5_NoSharedSubRecords ==
    \A i, j \in DOMAIN insts :
        i # j => Parts(heap, insts[i]) \cap Parts(heap, insts[j]) = {}

\* C5 amended: two ExperimentConfig objects whose constructions were handed
\* no existing sub-record or list (ExperimentConfig() and
\* load_config_from_env) share no mutable object, and a field write to one
\* leaves every field of the other unchanged; a construction that is passed
\* another instance's sub-record shares it.
C5_DefaultBuiltIndependent ==
    /\ [](\A i, j \in DOMAIN insts :
              (i # j /\ DefaultBuilt(i) /\ DefaultBuilt(j)) =>
                  Parts(heap, insts[i]) \cap Parts(heap, insts[j]) = {})
    /\ [][\A i, j \in DOMAIN insts :
              (i # j /\ DefaultBuilt(i) /\ DefaultBuilt(j) /\ WriteTo(i)) =>
                  View(heap', insts'[j]) = View(heap, insts[j])]_vars

C5_Witness ==
    /\ Len(insts) = 2
    /\ DefaultBuilt(1)
    /\ DefaultBuilt(2)
    /\ View(heap, insts[1]).model.lora_r = 8
    /\ View(heap, insts[2]).model.lora_r = 64
    /\ writes = 1

====
